---- MODULE Spec2Model ----
(***************************************************************************)
(* EsParserTeletext (packager/media/formats/mp2t/es_parser_teletext.cc):   *)
(* the EBU Teletext subtitle parser of the MPEG-2 TS demuxer.              *)
(*                                                                         *)
(* Strings are sequences of byte values.  A Parse call is followed through *)
(* the iterations of the data-unit loop of ParseInternal: one action per   *)
(* way an iteration can go, the last one carrying the call to its return.  *)
(***************************************************************************)
EXTENDS Integers, Sequences, FiniteSets

VARIABLES
    languages_,        \* std::unordered_map<uint16_t, std::string>
    sent_info_,        \* bool
    magazine_,         \* uint8_t
    page_number_,      \* uint8_t
    charset_code_,     \* uint8_t
    current_charset_,  \* char[96][3]
    page_state_,       \* map page index -> TextBlock{lines, pts}
    pc,                \* "new", "idle", or "loop" inside ParseInternal
    pts,               \* pts argument of the Parse call in progress / last made
    lines,             \* the local vector `lines` of ParseInternal
    unit,              \* the data unit read by the latest loop iteration, in a call
    nunits,            \* data units read so far, over all the Parse calls
    sink,              \* what the two callbacks have received, in order
    last_call,         \* the latest call made, with its result once returned
    entry_pages,       \* inside a Parse call: page_state_ as it was on entry
    headers_seen,      \* page indices computed from the header packets so far
    parsed_ok,         \* whether a Parse call has returned true
    flushes,           \* Flush calls since the latest other call, counted up to 2
    last_header,       \* page index of the latest header packet, -1 before any
    entry_index,       \* inside a Parse call: the page index current on entry
    call_headers,      \* inside a Parse call: page indices of its headers so far
    budget,            \* data units the buffers of the run hold in all
    descriptor         \* constructor argument: the descriptor bytes

vars == <<languages_, sent_info_, magazine_, page_number_, charset_code_,
          current_charset_, page_state_, pc, pts, lines, unit, nunits,
          sink, last_call, entry_pages, headers_seen, parsed_ok, flushes,
          last_header, entry_index, call_headers, budget, descriptor>>

-----------------------------------------------------------------------------
(* Bounds of the model *)

MaxUnits == 4        \* data units read in a run, over all its buffers
MaxPts == 2          \* PTS values are 1..MaxPts
MaxEntries == 3      \* entries declared by a subtitling descriptor
MaxTimedUnits == 5   \* data units read in a run with ordered PTS values

-----------------------------------------------------------------------------
(* Program constants *)

EBU_TELETEXT_WITH_SUBTITLING == 3
CHARSET_PORTUGUESE_SPANISH == 5
payload_len == 40
DATA_UNIT_LENGTH == 44

-----------------------------------------------------------------------------
(* Pure helpers *)

bit(value, bit_pos) == (value \div (2 ^ bit_pos)) % 2

hamming_8_4(value) ==
    bit(value, 6) + 2 * bit(value, 4) + 4 * bit(value, 2) + 8 * bit(value, 0)

BITREVERSE_8(b) ==
    128 * bit(b, 0) + 64 * bit(b, 1) + 32 * bit(b, 2) + 16 * bit(b, 3)
    + 8 * bit(b, 4) + 4 * bit(b, 5) + 2 * bit(b, 6) + bit(b, 7)

CHARSET_G0_LATIN ==
    [i \in 0..95 |->
        CASE i = 3  -> <<194, 163, 0>>
          [] i = 59 -> <<194, 171, 0>>
          [] i = 60 -> <<194, 189, 0>>
          [] i = 61 -> <<194, 187, 0>>
          [] i = 62 -> <<94, 0, 0>>
          [] i = 63 -> <<35, 0, 0>>
          [] i = 64 -> <<45, 0, 0>>
          [] i = 91 -> <<194, 188, 0>>
          [] i = 92 -> <<194, 166, 0>>
          [] i = 93 -> <<194, 190, 0>>
          [] i = 94 -> <<195, 183, 0>>
          [] OTHER  -> <<32 + i, 0, 0>>]

NATIONAL_CHAR_INDEX_G0 == <<3, 4, 32, 59, 60, 61, 62, 63, 64, 91, 92, 93, 94>>

PORTUGUESE_SPANISH ==
    << <<195, 167, 0>>, <<36, 0, 0>>,   <<194, 161, 0>>, <<195, 161, 0>>,
       <<195, 169, 0>>, <<195, 173, 0>>, <<195, 179, 0>>, <<195, 186, 0>>,
       <<194, 191, 0>>, <<195, 188, 0>>, <<195, 177, 0>>, <<195, 168, 0>>,
       <<195, 160, 0>> >>

\* UpdateCharset without its switch: the Latin table whatever the code.
UpdateCharsetLatinOnly(code) == CHARSET_G0_LATIN

\* UpdateCharset: the table current_charset_ holds for a charset code.
UpdateCharset(code) ==
    IF code = CHARSET_PORTUGUESE_SPANISH
    THEN [i \in 0..95 |->
            IF \E k \in 1..13 : NATIONAL_CHAR_INDEX_G0[k] = i
            THEN PORTUGUESE_SPANISH[CHOOSE k \in 1..13 : NATIONAL_CHAR_INDEX_G0[k] = i]
            ELSE CHARSET_G0_LATIN[i]]
    ELSE CHARSET_G0_LATIN

\* std::string(const char*): the bytes before the first NUL.
CString(entry) ==
    IF entry[1] = 0 THEN <<>>
    ELSE IF entry[2] = 0 THEN <<entry[1]>>
    ELSE IF entry[3] = 0 THEN <<entry[1], entry[2]>>
    ELSE entry

-----------------------------------------------------------------------------
(* ParseSubtitlingDescriptor *)

\* result.emplace(index, lang): an existing key keeps its value.
Emplace(map, key, value) ==
    IF key \in DOMAIN map THEN map
    ELSE [k \in DOMAIN map \cup {key} |-> IF k = key THEN value ELSE map[k]]

\* The loop of ParseSubtitlingDescriptor, entered with loop counter i and the
\* reader at byte offset pos of the descriptor d.
RECURSIVE DescriptorLoop(_, _, _, _, _)
DescriptorLoop(d, data_size, i, pos, result) ==
    IF ~(i < data_size) THEN [ok |-> TRUE, result |-> result]
    ELSE IF pos + 5 > Len(d) THEN [ok |-> FALSE, result |-> result]
    ELSE LET lang == <<d[pos + 1], d[pos + 2], d[pos + 3]>>
             teletext_type == d[pos + 4] \div 8
             raw_magazine == d[pos + 4] % 8
             magazine_number == IF raw_magazine = 0 THEN 8 ELSE raw_magazine
             page_tenths == d[pos + 5] \div 16
             page_digit == d[pos + 5] % 16
             page_number == page_tenths * 10 + page_digit
             index == (magazine_number * 100 + page_number) % 65536
         IN  DescriptorLoop(d, data_size, i + 8, pos + 5,
                            Emplace(result, index, lang))

ParseSubtitlingDescriptor(d, result) ==
    IF Len(d) < 2 THEN [ok |-> FALSE, result |-> result]
    ELSE IF ~(d[2] + 2 <= Len(d)) THEN [ok |-> FALSE, result |-> result]
    ELSE DescriptorLoop(d, d[2], 0, 2, result)

-----------------------------------------------------------------------------
(* ParseDataBlock: the display line of a packet 1..25 *)

AMP == <<38, 97, 109, 112, 59>>     \* "&amp;"
LT == <<38, 108, 116, 59>>          \* "&lt;"

RECURSIVE DisplayTextLoop(_, _, _, _, _)
DisplayTextLoop(data_block, i, leading_spaces, next_string, table) ==
    IF i > payload_len THEN next_string
    ELSE LET reversed == BITREVERSE_8(data_block[i]) % 128
             next_char == IF reversed < 32 \/ reversed > 122 THEN 32 ELSE reversed
         IN  IF leading_spaces /\ next_char = 32
             THEN DisplayTextLoop(data_block, i + 1, TRUE, next_string, table)
             ELSE DisplayTextLoop(data_block, i + 1, FALSE,
                     next_string \o
                        (CASE next_char = 38 -> AMP
                           [] next_char = 60 -> LT
                           [] OTHER -> CString(table[next_char - 32])),
                     table)

DisplayText(data_block, table) == DisplayTextLoop(data_block, 1, TRUE, <<>>, table)

-----------------------------------------------------------------------------
(* SendPending and the end of ParseInternal *)

PlainFragment(body) == [body |-> body, newline |-> FALSE, sub_fragments |-> <<>>]
NewlineFragment == [body |-> <<>>, newline |-> TRUE, sub_fragments |-> <<>>]

\* The loop over pending_lines followed by sub_fragments.pop_back().
RECURSIVE SubFragmentsLoop(_, _, _)
SubFragmentsLoop(pending_lines, k, sub_fragments) ==
    IF k > Len(pending_lines) THEN sub_fragments
    ELSE SubFragmentsLoop(pending_lines, k + 1,
            sub_fragments \o <<PlainFragment(pending_lines[k]), NewlineFragment>>)

\* SubFragments without the pop_back(): a line break follows the last line.
SubFragmentsTrailingBreak(pending_lines) ==
    SubFragmentsLoop(pending_lines, 1, <<>>)

SubFragments(pending_lines) ==
    LET all == SubFragmentsLoop(pending_lines, 1, <<>>)
    IN  SubSeq(all, 1, Len(all) - 1)

TextFragmentOf(pending_lines) ==
    IF Len(pending_lines) = 1
    THEN PlainFragment(pending_lines[1])
    ELSE [body |-> <<>>, newline |-> FALSE,
          sub_fragments |-> SubFragments(pending_lines)]

TextSample(index, start, end, pending_lines) ==
    [kind |-> "sample", sub_stream_index |-> index, start_time |-> start,
     end_time |-> end, body |-> TextFragmentOf(pending_lines)]

Erase(map, key) == [k \in DOMAIN map \ {key} |-> map[k]]

\* SendPending without the erase(): the page stays pending after its sample.
SendPendingKeepsPage(ps, snk, index, p) ==
    IF index \in DOMAIN ps /\ ps[index].lines /= <<>>
    THEN [page_state |-> ps,
          sink |-> Append(snk, TextSample(index, ps[index].pts, p, ps[index].lines))]
    ELSE [page_state |-> ps, sink |-> snk]

\* SendPending with page_state_.clear() in place of the erase().
SendPendingClearsAll(ps, snk, index, p) ==
    IF index \in DOMAIN ps /\ ps[index].lines /= <<>>
    THEN [page_state |-> <<>>,
          sink |-> Append(snk, TextSample(index, ps[index].pts, p, ps[index].lines))]
    ELSE [page_state |-> ps, sink |-> snk]

\* SendPending with the two times of the sample swapped.
SendPendingSwapsTimes(ps, snk, index, p) ==
    IF index \in DOMAIN ps /\ ps[index].lines /= <<>>
    THEN [page_state |-> Erase(ps, index),
          sink |-> Append(snk, TextSample(index, p, ps[index].pts, ps[index].lines))]
    ELSE [page_state |-> ps, sink |-> snk]

\* SendPending(index, pts) on page state ps and sink snk.
SendPending(ps, snk, index, p) ==
    IF index \in DOMAIN ps /\ ps[index].lines /= <<>>
    THEN [page_state |-> Erase(ps, index),
          sink |-> Append(snk, TextSample(index, ps[index].pts, p, ps[index].lines))]
    ELSE [page_state |-> ps, sink |-> snk]

\* StoreLines with the page number left out of the index.
StoreLinesByMagazine(ps, mag, page, ls, p) ==
    IF ls = <<>> THEN ps
    ELSE LET index == (mag * 100) % 65536
         IN  IF index \notin DOMAIN ps
             THEN [k \in DOMAIN ps \cup {index} |->
                      IF k = index THEN [lines |-> ls, pts |-> p] ELSE ps[k]]
             ELSE [ps EXCEPT ![index].lines = @ \o ls]

\* StoreLines taking the PTS of the call also when the page exists already.
StoreLinesRestamps(ps, mag, page, ls, p) ==
    IF ls = <<>> THEN ps
    ELSE LET index == (mag * 100 + page) % 65536
         IN  IF index \notin DOMAIN ps
             THEN [k \in DOMAIN ps \cup {index} |->
                      IF k = index THEN [lines |-> ls, pts |-> p] ELSE ps[k]]
             ELSE [ps EXCEPT ![index] = [lines |-> @.lines \o ls, pts |-> p]]

\* StoreLines without the early return on a call that decoded no line.
StoreLinesStoresEmpty(ps, mag, page, ls, p) ==
    LET index == (mag * 100 + page) % 65536
    IN  IF index \notin DOMAIN ps
        THEN [k \in DOMAIN ps \cup {index} |->
                 IF k = index THEN [lines |-> ls, pts |-> p] ELSE ps[k]]
        ELSE [ps EXCEPT ![index].lines = @ \o ls]

\* ParseInternal after its loop: the lines of the buffer go to the page of
\* the current magazine and page number.
StoreLines(ps, mag, page, ls, p) ==
    IF ls = <<>> THEN ps
    ELSE LET index == (mag * 100 + page) % 65536
         IN  IF index \notin DOMAIN ps
             THEN [k \in DOMAIN ps \cup {index} |->
                      IF k = index THEN [lines |-> ls, pts |-> p] ELSE ps[k]]
             ELSE [ps EXCEPT ![index].lines = @ \o ls]

-----------------------------------------------------------------------------
(* Inputs: descriptors and data units, built byte by byte as a teletext     *)
(* encoder builds them.                                                     *)

Pad(bytes, n, filler) == bytes \o [k \in 1..(n - Len(bytes)) |-> filler]

\* One descriptor entry: language, teletext type, magazine, page digits.
EntryBytes(e) == <<e.lang[1], e.lang[2], e.lang[3], e.type * 8 + e.mag,
                   e.tens * 16 + e.digit>>

RECURSIVE Flatten(_)
Flatten(seqs) == IF seqs = <<>> THEN <<>> ELSE Head(seqs) \o Flatten(Tail(seqs))

\* Tag 0x56, length 5n, then the n entries.
DescriptorBytes(entries) ==
    <<86, 5 * Len(entries)>> \o Flatten([k \in 1..Len(entries) |-> EntryBytes(entries[k])])

ENG == <<101, 110, 103>>
SPA == <<115, 112, 97>>

Entries ==
    [lang : {ENG, SPA}, type : {2}, mag : {0, 1}, tens : {1, 8}, digit : {2}]

EntryKey(e) == (IF e.mag = 0 THEN 8 ELSE e.mag) * 100 + e.tens * 10 + e.digit

\* The entries a descriptor declares: the 5-byte groups of its L content bytes.
Declared(d) ==
    [k \in 1..(d[2] \div 5) |->
        [lang |-> <<d[5 * k - 2], d[5 * k - 1], d[5 * k]>>,
         type |-> d[5 * k + 1] \div 8, mag |-> d[5 * k + 1] % 8,
         tens |-> d[5 * k + 2] \div 16, digit |-> d[5 * k + 2] % 16]]

EntryLists ==
    UNION {{es \in [1..n -> Entries] :
                \A a, b \in 1..n : a /= b => EntryKey(es[a]) /= EntryKey(es[b])}
           : n \in 0..MaxEntries}

\* Well-formed descriptors, and one whose length byte exceeds the buffer.
WellFormedDescriptors == {DescriptorBytes(es) : es \in EntryLists}
Descriptors == WellFormedDescriptors \cup {<<86, 5, 101, 110>>}

DefaultDescriptor ==
    DescriptorBytes(<<[lang |-> ENG, type |-> 2, mag |-> 1, tens |-> 1, digit |-> 2]>>)

\* A byte whose Hamming 8/4 data bits carry the nibble n.
HammingByte(n) == 64 * bit(n, 0) + 16 * bit(n, 1) + 4 * bit(n, 2) + bit(n, 3)

\* The 16-bit packet address carrying magazine m (0..7) and packet number nr.
AddressBits(m, nr) ==
    16384 * bit(m, 0) + 4096 * bit(m, 1) + 1024 * bit(m, 2)
    + 256 * bit(nr, 0) + 64 * bit(nr, 1) + 16 * bit(nr, 2) + 4 * bit(nr, 3)
    + bit(nr, 4)

SPACE_BYTE == BITREVERSE_8(32)

\* Data block of a page header: page units, page tens, five subcode digits,
\* then the digit holding C11 and the charset bits C12..C14.
HeaderBlock(tens, digit, charset) ==
    Pad(<<HammingByte(digit), HammingByte(tens), HammingByte(0), HammingByte(0),
          HammingByte(0), HammingByte(0), HammingByte(0),
          HammingByte(2 * charset)>>, payload_len, SPACE_BYTE)

\* Data block of a display row: the characters, sent least significant bit
\* first, padded with spaces to the 40 columns.
TextBlock(text) ==
    Pad([k \in 1..Len(text) |-> BITREVERSE_8(text[k])], payload_len, SPACE_BYTE)

DataUnit(id, length, size, address, block) ==
    [data_unit_id |-> id, data_unit_length |-> length, size |-> size,
     address_bits |-> address, data_block |-> block]

NoUnit == DataUnit(0, 0, 0, 0, <<>>)

\* Page 12 of magazine 1 (default charset), page 00 of magazine 8 (sent as
\* magazine 0, Portuguese/Spanish charset).
HeaderUnits ==
    {DataUnit(3, 44, 46, AddressBits(1, 0), HeaderBlock(1, 2, 0)),
     DataUnit(3, 44, 46, AddressBits(0, 0), HeaderBlock(0, 0, 5))}

\* Rows "A" (row 1, magazine 1) and " B<{" (row 25, magazine 8).
DisplayUnits ==
    {DataUnit(3, 44, 46, AddressBits(1, 1), TextBlock(<<65>>)),
     DataUnit(3, 44, 46, AddressBits(0, 25), TextBlock(<<32, 66, 60, 123>>))}

EnhancementUnits == {DataUnit(3, 44, 46, AddressBits(1, 26), TextBlock(<<>>))}

\* A stuffing unit (data_unit_id 0xFF).
OtherUnits == {DataUnit(255, 44, 46, 0, Pad(<<>>, payload_len, 255))}

BadLengthUnits == {DataUnit(3, 43, 45, AddressBits(1, 1), <<>>)}

\* Buffers that end inside a unit: after its id byte, or inside its payload.
TruncatedUnits ==
    {DataUnit(3, 0, 1, 0, <<>>),
     DataUnit(3, 44, 20, AddressBits(1, 0), <<>>)}

Units == HeaderUnits \cup DisplayUnits \cup EnhancementUnits \cup OtherUnits
         \cup BadLengthUnits \cup TruncatedUnits

PtsValues == 1..MaxPts

-----------------------------------------------------------------------------
(* Construction *)

\* The constructor: languages_ from the descriptor (whatever the parse
\* returns), zeroed magazine, page and charset code, UpdateCharset().
EsParserTeletext(d) ==
    [languages |-> ParseSubtitlingDescriptor(d, <<>>).result,
     magazine |-> 0, page_number |-> 0, charset_code |-> 0,
     current_charset |-> UpdateCharset(0)]

\* What does not depend on the descriptor: no call made, nothing sent.
NoCallYet ==
    /\ sent_info_ = FALSE
    /\ page_state_ = <<>>
    /\ pts = 0
    /\ lines = <<>>
    /\ unit = NoUnit
    /\ nunits = 0
    /\ sink = <<>>
    /\ last_call = [op |-> "EsParserTeletext", result |-> "void"]
    /\ entry_pages = <<>>
    /\ headers_seen = {}
    /\ parsed_ok = FALSE
    /\ flushes = 0
    /\ last_header = -1
    /\ entry_index = -1
    /\ call_headers = {}

Init ==
    /\ descriptor = DefaultDescriptor
    /\ languages_ = EsParserTeletext(descriptor).languages
    /\ magazine_ = EsParserTeletext(descriptor).magazine
    /\ page_number_ = EsParserTeletext(descriptor).page_number
    /\ charset_code_ = EsParserTeletext(descriptor).charset_code
    /\ current_charset_ = EsParserTeletext(descriptor).current_charset
    /\ pc = "idle"
    /\ budget = MaxUnits
    /\ NoCallYet

-----------------------------------------------------------------------------
(* Parse *)

\* The head of Parse without the sent_info_ test.
AnnounceInfoAlways(sent, snk, langs) ==
    Append(snk, [kind |-> "info", sub_streams |-> langs])

\* The head of Parse: the stream info goes out once, before ParseInternal.
AnnounceInfo(sent, snk, langs) ==
    IF ~sent THEN Append(snk, [kind |-> "info", sub_streams |-> langs]) ELSE snk

\* Parse on an empty buffer: ParseInternal fails skipping the data identifier.
ParseEmpty(p) ==
    /\ pc = "idle"
    /\ sink' = AnnounceInfo(sent_info_, sink, languages_)
    /\ sent_info_' = TRUE
    /\ pts' = p
    /\ unit' = NoUnit
    /\ flushes' = 0
    /\ entry_index' = -1
    /\ call_headers' = {}
    /\ last_call' = [op |-> "Parse", result |-> "false"]
    /\ UNCHANGED <<languages_, magazine_, page_number_, charset_code_,
                   current_charset_, page_state_, pc, lines, nunits,
                   entry_pages, headers_seen, parsed_ok,
                   last_header, budget,
                   descriptor>>

\* Parse on a buffer of at least one byte: the data identifier is skipped
\* and the data-unit loop is entered with no line.
ParseEnter(p) ==
    /\ pc = "idle"
    /\ sink' = AnnounceInfo(sent_info_, sink, languages_)
    /\ sent_info_' = TRUE
    /\ pts' = p
    /\ unit' = NoUnit
    /\ flushes' = 0
    /\ entry_index' = (magazine_ * 100 + page_number_) % 65536
    /\ call_headers' = {}
    /\ lines' = <<>>
    /\ entry_pages' = page_state_
    /\ last_call' = [op |-> "Parse", result |-> "pending"]
    /\ pc' = "loop"
    /\ UNCHANGED <<languages_, magazine_, page_number_, charset_code_,
                   current_charset_, page_state_, nunits, headers_seen,
                   parsed_ok,
                   last_header, budget,
                   descriptor>>

\* Fields of the unit the loop iteration has read.
Magazine(u) ==
    LET m == bit(u.address_bits, 14) + 2 * bit(u.address_bits, 12)
             + 4 * bit(u.address_bits, 10)
    IN  IF m = 0 THEN 8 ELSE m

PacketNr(u) ==
    bit(u.address_bits, 8) + 2 * bit(u.address_bits, 6)
    + 4 * bit(u.address_bits, 4) + 8 * bit(u.address_bits, 2)
    + 16 * bit(u.address_bits, 0)

\* Every read of the iteration succeeds and the unit is a subtitling unit.
Subtitling(u) ==
    /\ u.size >= 2
    /\ u.data_unit_length = DATA_UNIT_LENGTH
    /\ u.data_unit_id = EBU_TELETEXT_WITH_SUBTITLING
    /\ u.size >= 2 + DATA_UNIT_LENGTH

Reads(u) ==
    /\ pc = "loop"
    /\ nunits < budget
    /\ u \in Units
    /\ unit' = u
    /\ nunits' = nunits + 1

\* The return of ParseInternal, with the call's local lines gone.
Return(result) ==
    /\ pc' = "idle"
    /\ lines' = <<>>
    /\ entry_pages' = <<>>
    /\ entry_index' = -1
    /\ call_headers' = {}
    /\ last_call' = [op |-> "Parse", result |-> result]
    /\ parsed_ok' = (parsed_ok \/ result = "true")

\* The code after the loop storing the lines under the index the call was
\* entered with.
AfterLoopStoresAtEntry ==
    /\ page_state_' = StoreLines(page_state_, entry_index \div 100,
                                 entry_index % 100, lines, pts)
    /\ Return("true")

\* The code after the loop, reached by its end or by break.
AfterLoop ==
    /\ page_state_' = StoreLines(page_state_, magazine_, page_number_, lines, pts)
    /\ Return("true")

\* bits_available() is 0: the loop ends.
EndOfBuffer ==
    /\ pc = "loop"
    /\ AfterLoop
    /\ unit' = NoUnit
    /\ UNCHANGED <<languages_, sent_info_, magazine_, page_number_,
                   charset_code_, current_charset_, pts, nunits, sink,
                   headers_seen, flushes, last_header, budget,
                   descriptor>>

\* A read fails: the buffer ends inside the unit.  ParseInternal returns false.
TruncatedDataUnit(u) ==
    /\ Reads(u)
    /\ \/ u.size < 2
       \/ u.data_unit_length = DATA_UNIT_LENGTH /\ u.size < 2 + DATA_UNIT_LENGTH
    /\ Return("false")
    /\ UNCHANGED <<languages_, sent_info_, magazine_, page_number_,
                   charset_code_, current_charset_, page_state_, pts,
                   sink, headers_seen, flushes, last_header, budget,
                   descriptor>>

\* data_unit_length != 44 answered by `return true` instead of `break`.
BadDataUnitLengthReturns(u) ==
    /\ Reads(u)
    /\ u.size >= 2
    /\ u.data_unit_length /= DATA_UNIT_LENGTH
    /\ Return("true")
    /\ UNCHANGED <<languages_, sent_info_, magazine_, page_number_,
                   charset_code_, current_charset_, page_state_, pts, sink,
                   headers_seen, flushes, last_header, budget,
                   descriptor>>

\* data_unit_length != 44: break.
BadDataUnitLength(u) ==
    /\ Reads(u)
    /\ u.size >= 2
    /\ u.data_unit_length /= DATA_UNIT_LENGTH
    /\ AfterLoop
    /\ UNCHANGED <<languages_, sent_info_, magazine_, page_number_,
                   charset_code_, current_charset_, pts, sink,
                   headers_seen, flushes, last_header, budget,
                   descriptor>>

\* data_unit_id != EBU_TELETEXT_WITH_SUBTITLING: the unit is skipped.
SkipDataUnit(u) ==
    /\ Reads(u)
    /\ u.size >= 2 + DATA_UNIT_LENGTH
    /\ u.data_unit_length = DATA_UNIT_LENGTH
    /\ u.data_unit_id /= EBU_TELETEXT_WITH_SUBTITLING
    /\ UNCHANGED <<languages_, sent_info_, magazine_, page_number_,
                   charset_code_, current_charset_, page_state_, pc, pts,
                   lines, sink, last_call, entry_pages, headers_seen,
                   parsed_ok,
                   flushes, last_header, entry_index, call_headers, budget,
                   descriptor>>

\* ParseDataBlock, packet_nr == 0: the page header.
HeaderPageNumber(u) ==
    (10 * hamming_8_4(u.data_block[2]) + hamming_8_4(u.data_block[1])) % 256

HeaderIndex(u) == (Magazine(u) * 100 + HeaderPageNumber(u)) % 65536

HeaderCharset(u) == hamming_8_4(u.data_block[8]) \div 2

HeaderPacket(u) ==
    /\ Reads(u)
    /\ Subtitling(u)
    /\ PacketNr(u) = 0
    /\ LET sent == SendPending(page_state_, sink, HeaderIndex(u), pts)
       IN  /\ page_state_' = sent.page_state
           /\ sink' = sent.sink
    /\ page_number_' = HeaderPageNumber(u)
    /\ magazine_' = Magazine(u)
    /\ IF HeaderPageNumber(u) /= 255 /\ HeaderCharset(u) /= charset_code_
       THEN /\ charset_code_' = HeaderCharset(u)
            /\ current_charset_' = UpdateCharset(HeaderCharset(u))
       ELSE UNCHANGED <<charset_code_, current_charset_>>
    /\ headers_seen' = headers_seen \cup {HeaderIndex(u)}
    /\ last_header' = HeaderIndex(u)
    /\ call_headers' = call_headers \cup {HeaderIndex(u)}
    /\ UNCHANGED <<languages_, sent_info_, pc, pts, lines, last_call,
                   entry_pages, parsed_ok,
                   flushes, entry_index, budget,
                   descriptor>>

\* ParseDataBlock, packet_nr in 1..25: a display row becomes a line.
DisplayPacket(u) ==
    /\ Reads(u)
    /\ Subtitling(u)
    /\ PacketNr(u) >= 1
    /\ PacketNr(u) <= 25
    /\ lines' = Append(lines, DisplayText(u.data_block, current_charset_))
    /\ UNCHANGED <<languages_, sent_info_, magazine_, page_number_,
                   charset_code_, current_charset_, page_state_, pc, pts,
                   sink, last_call, entry_pages, headers_seen,
                   parsed_ok,
                   flushes, last_header, entry_index, call_headers, budget,
                   descriptor>>

\* ParseDataBlock without the packet_nr > 25 test: the packet is decoded as
\* a display row.
EnhancementPacketAsRow(u) ==
    /\ Reads(u)
    /\ Subtitling(u)
    /\ PacketNr(u) > 25
    /\ lines' = Append(lines, DisplayText(u.data_block, current_charset_))
    /\ UNCHANGED <<languages_, sent_info_, magazine_, page_number_,
                   charset_code_, current_charset_, page_state_, pc, pts,
                   sink, last_call, entry_pages, headers_seen, parsed_ok,
                   flushes, last_header, entry_index, call_headers, budget,
                   descriptor>>

\* ParseDataBlock, packet_nr > 25: no line.
EnhancementPacket(u) ==
    /\ Reads(u)
    /\ Subtitling(u)
    /\ PacketNr(u) > 25
    /\ UNCHANGED <<languages_, sent_info_, magazine_, page_number_,
                   charset_code_, current_charset_, page_state_, pc, pts,
                   lines, sink, last_call, entry_pages, headers_seen,
                   parsed_ok,
                   flushes, last_header, entry_index, call_headers, budget,
                   descriptor>>

\* The samples of the pending pages ps closed at time p, by increasing index.
RECURSIVE PendingSamples(_, _, _)
PendingSamples(ps, keys, p) ==
    IF keys = {} THEN <<>>
    ELSE LET k == CHOOSE x \in keys : \A y \in keys : x <= y
         IN  <<TextSample(k, ps[k].pts, p, ps[k].lines)>>
             \o PendingSamples(ps, keys \ {k}, p)

\* A Flush that hands the pending pages to the sink and keeps them pending.
FlushSendsPending ==
    /\ pc = "idle"
    /\ sink' = sink \o PendingSamples(page_state_, DOMAIN page_state_, pts)
    /\ last_call' = [op |-> "Flush", result |-> "true"]
    /\ flushes' = IF flushes = 0 THEN 1 ELSE 2
    /\ UNCHANGED <<languages_, sent_info_, magazine_, page_number_,
                   charset_code_, current_charset_, page_state_, pc, pts,
                   lines, unit, nunits, entry_pages, headers_seen, parsed_ok,
                   last_header, entry_index, call_headers, budget,
                   descriptor>>

\* Flush returns true and does nothing else.
Flush ==
    /\ pc = "idle"
    /\ last_call' = [op |-> "Flush", result |-> "true"]
    /\ flushes' = IF flushes = 0 THEN 1 ELSE 2
    /\ UNCHANGED <<languages_, sent_info_, magazine_, page_number_,
                   charset_code_, current_charset_, page_state_, pc, pts,
                   lines, unit, nunits, sink, entry_pages,
                   headers_seen, parsed_ok,
                   last_header, entry_index, call_headers, budget,
                   descriptor>>

\* Reset has an empty body.
Reset ==
    /\ pc = "idle"
    /\ last_call' = [op |-> "Reset", result |-> "void"]
    /\ flushes' = 0
    /\ UNCHANGED <<languages_, sent_info_, magazine_, page_number_,
                   charset_code_, current_charset_, page_state_, pc, pts,
                   lines, unit, nunits, sink, entry_pages,
                   headers_seen, parsed_ok,
                   last_header, entry_index, call_headers, budget,
                   descriptor>>

Next ==
    \/ \E p \in PtsValues : ParseEmpty(p)
    \/ \E p \in PtsValues : ParseEnter(p)
    \/ EndOfBuffer
    \/ \E u \in Units : TruncatedDataUnit(u)
    \/ \E u \in Units : BadDataUnitLength(u)
    \/ \E u \in Units : SkipDataUnit(u)
    \/ \E u \in Units : HeaderPacket(u)
    \/ \E u \in Units : DisplayPacket(u)
    \/ \E u \in Units : EnhancementPacket(u)
    \/ Flush
    \/ Reset

Spec == Init /\ [][Next]_vars

-----------------------------------------------------------------------------
(* The constructor as an operation, over the bounded set of descriptors *)

InitDescriptor ==
    /\ descriptor \in Descriptors
    /\ languages_ = <<>>
    /\ magazine_ = 0
    /\ page_number_ = 0
    /\ charset_code_ = 0
    /\ current_charset_ = [i \in 0..95 |-> <<0, 0, 0>>]
    /\ pc = "new"
    /\ budget = MaxUnits
    /\ NoCallYet

Construct ==
    /\ pc = "new"
    /\ languages_' = EsParserTeletext(descriptor).languages
    /\ magazine_' = EsParserTeletext(descriptor).magazine
    /\ page_number_' = EsParserTeletext(descriptor).page_number
    /\ charset_code_' = EsParserTeletext(descriptor).charset_code
    /\ current_charset_' = EsParserTeletext(descriptor).current_charset
    /\ pc' = "idle"
    /\ UNCHANGED <<sent_info_, page_state_, pts, lines, unit, nunits,
                   sink, last_call, entry_pages, headers_seen, parsed_ok,
                   flushes, last_header, entry_index, call_headers, budget,
                   descriptor>>

SpecDescriptor == InitDescriptor /\ [][Construct]_vars

-----------------------------------------------------------------------------
(* Runs whose Parse calls come with non-decreasing PTS values, over buffers *)
(* of page headers and display rows                                         *)

TimedUnits == HeaderUnits \cup DisplayUnits

InitTimed ==
    /\ descriptor = DefaultDescriptor
    /\ languages_ = EsParserTeletext(descriptor).languages
    /\ magazine_ = EsParserTeletext(descriptor).magazine
    /\ page_number_ = EsParserTeletext(descriptor).page_number
    /\ charset_code_ = EsParserTeletext(descriptor).charset_code
    /\ current_charset_ = EsParserTeletext(descriptor).current_charset
    /\ pc = "idle"
    /\ budget = MaxTimedUnits
    /\ NoCallYet

NextTimed ==
    \/ \E p \in PtsValues : p >= pts /\ ParseEmpty(p)
    \/ \E p \in PtsValues : p >= pts /\ ParseEnter(p)
    \/ EndOfBuffer
    \/ \E u \in TimedUnits : HeaderPacket(u)
    \/ \E u \in TimedUnits : DisplayPacket(u)
    \/ Flush
    \/ Reset

SpecTimed == InitTimed /\ [][NextTimed]_vars

-----------------------------------------------------------------------------
(* Properties *)

IsSample(e) == e.kind = "sample"
IsInfo(e) == e.kind = "info"
Last(q) == q[Len(q)]

\* The step of the data-unit loop that has read a page header.
HeaderStep ==
    /\ pc = "loop"
    /\ nunits' = nunits + 1
    /\ Subtitling(unit')
    /\ PacketNr(unit') = 0

\* The text lines a sample's fragment carries, in order.
LinesOf(fragment) ==
    IF fragment.sub_fragments = <<>> THEN <<fragment.body>>
    ELSE LET texts == SelectSeq(fragment.sub_fragments, LAMBDA f : ~f.newline)
         IN  [k \in 1..Len(texts) |-> texts[k].body]

\* C1: a header packet for a page index X that has a pending page (lines L,
\* start s), processed by a Parse call with PTS p, hands exactly one sample to
\* the sink: index X, start s, end p, lines L in order.  The page of X is gone
\* right after, while the lines of the buffer in hand are still local.
C1_HeaderEmitsPending ==
    [][ (HeaderStep /\ HeaderIndex(unit') \in DOMAIN page_state_) =>
          LET X == HeaderIndex(unit')
          IN  /\ Len(sink') = Len(sink) + 1
              /\ SubSeq(sink', 1, Len(sink)) = sink
              /\ IsSample(Last(sink'))
              /\ Last(sink').sub_stream_index = X
              /\ Last(sink').start_time = page_state_[X].pts
              /\ Last(sink').end_time = pts
              /\ LinesOf(Last(sink').body) = page_state_[X].lines
              /\ X \notin DOMAIN page_state_'
              /\ lines' = lines ]_vars

C1_Witness ==
    /\ pc = "loop"
    /\ Subtitling(unit)
    /\ PacketNr(unit) = 0
    /\ Len(sink) = 2
    /\ IsSample(sink[2])
    /\ sink[2].sub_stream_index = HeaderIndex(unit)
    /\ sink[2].start_time = 1
    /\ sink[2].end_time = 2
    /\ pts = 2
    /\ HeaderIndex(unit) \notin DOMAIN page_state_

\* C2: Flush emits one sample for every pending page, start the page's start
\* PTS and end the PTS of the last Parse call, by increasing page index, and
\* leaves no page pending.
C2_FlushEmitsPending ==
    [][ (pc = "idle" /\ last_call'.op = "Flush") =>
          /\ sink' = sink \o PendingSamples(page_state_, DOMAIN page_state_, pts)
          /\ page_state_' = <<>> ]_vars

\* C3: after Reset no page is pending, magazine, page and charset code are
\* zero and the character-set table is the default Latin table.
C3_ResetClears ==
    last_call.op = "Reset" =>
        /\ page_state_ = <<>>
        /\ magazine_ = 0
        /\ page_number_ = 0
        /\ charset_code_ = 0
        /\ current_charset_ = CHARSET_G0_LATIN

InfoCount == Cardinality({k \in 1..Len(sink) : IsInfo(sink[k])})

\* C4 as stated: the announcement is made on the first Parse call that
\* succeeds, so none has been made while no Parse call has returned true
\* (a call in progress may still be that call).
C4_InfoOnFirstSuccess ==
    (InfoCount > 0 /\ pc = "idle") => parsed_ok

\* C4, amended: the announcement is made on the first Parse call, whether
\* that call succeeds or fails; it is made at most once (also across Reset)
\* and before any text sample.
C4_InfoOnFirstParse ==
    /\ (pts = 0) => sink = <<>>
    /\ (pts /= 0) => (sink /= <<>> /\ IsInfo(sink[1]))
    /\ InfoCount <= 1
    /\ \A k \in 1..Len(sink) : IsSample(sink[k]) => (k > 1 /\ IsInfo(sink[1]))

C4_Witness ==
    /\ ~parsed_ok
    /\ last_call = [op |-> "Parse", result |-> "false"]
    /\ sink /= <<>>
    /\ IsInfo(sink[1])

\* C5: lines go only to page indices that a header packet has announced:
\* every pending page and every emitted sample carries such an index.
C5_OnlyAnnouncedPages ==
    /\ DOMAIN page_state_ \subseteq headers_seen
    /\ \A k \in 1..Len(sink) :
          IsSample(sink[k]) => sink[k].sub_stream_index \in headers_seen

\* C6: a Parse call that fails on a truncated data unit leaves the pending
\* pages as they were when the call was entered, and has emitted nothing.
C6_FailedParseKeepsPages ==
    [][ (pc = "loop" /\ pc' = "idle" /\ last_call'.result = "false") =>
          page_state_' = entry_pages ]_vars

\* The step of the data-unit loop that has read a unit of length other than 44.
BadLengthStep ==
    /\ pc = "loop"
    /\ nunits' = nunits + 1
    /\ unit'.size >= 2
    /\ unit'.data_unit_length /= 44

\* C7: at a data unit whose length is not 44 the call ends (no later unit is
\* read), returns true, and the lines of the earlier units of the buffer are
\* appended to the pending page of the current magazine and page.
C7_BadLengthStopsAndStores ==
    [][ BadLengthStep =>
          LET index == magazine_ * 100 + page_number_
              old == IF index \in DOMAIN page_state_
                     THEN page_state_[index].lines ELSE <<>>
          IN  /\ pc' = "idle"
              /\ last_call' = [op |-> "Parse", result |-> "true"]
              /\ sink' = sink
              /\ lines = <<>> => page_state_' = page_state_
              /\ lines /= <<>> =>
                    /\ index \in DOMAIN page_state_'
                    /\ page_state_'[index].lines = old \o lines
              /\ \A i \in DOMAIN page_state_ \ {index} :
                    i \in DOMAIN page_state_' /\ page_state_'[i] = page_state_[i] ]_vars

C7_Witness ==
    /\ pc = "idle"
    /\ unit \in BadLengthUnits
    /\ last_call = [op |-> "Parse", result |-> "true"]
    /\ nunits = 4
    /\ 112 \in DOMAIN page_state_
    /\ Len(page_state_[112].lines) = 2
    /\ page_state_[112].pts = pts

\* C8: the language map of a well-formed descriptor has one key per declared
\* entry, (magazine, 0 read as 8) * 100 + tens * 10 + units, mapped to the
\* entry's language code, and no other key.
C8_LanguageMapComplete ==
    (pc = "idle" /\ descriptor \in WellFormedDescriptors) =>
        LET declared == Declared(descriptor)
        IN  /\ DOMAIN languages_ = {EntryKey(declared[k]) : k \in 1..Len(declared)}
            /\ \A k \in 1..Len(declared) :
                  /\ EntryKey(declared[k]) \in DOMAIN languages_
                  /\ languages_[EntryKey(declared[k])] = declared[k].lang

\* The step that hands a sample to the sink.
EmitStep ==
    /\ Len(sink') = Len(sink) + 1
    /\ IsSample(Last(sink'))
    /\ Last(sink').sub_stream_index \in DOMAIN page_state_

\* C9: a sample built from one line is a single plain-text fragment; built
\* from n >= 2 lines it is the n lines in order with one line break between
\* consecutive lines and none after the last.
C9_FragmentsJoinedByBreaks ==
    [][ EmitStep =>
          LET L == page_state_[Last(sink').sub_stream_index].lines
              n == Len(L)
              body == Last(sink').body
              sub == body.sub_fragments
          IN  /\ ~body.newline
              /\ n = 1 => (body.body = L[1] /\ sub = <<>>)
              /\ n >= 2 =>
                    /\ Len(sub) = 2 * n - 1
                    /\ \A k \in 1..n :
                          /\ sub[2 * k - 1].body = L[k]
                          /\ ~sub[2 * k - 1].newline
                          /\ sub[2 * k - 1].sub_fragments = <<>>
                    /\ \A k \in 1..(n - 1) : sub[2 * k].newline ]_vars

C9_Witness ==
    \E k \in 1..Len(sink) :
        /\ IsSample(sink[k])
        /\ Len(sink[k].body.sub_fragments) = 3
        /\ sink[k].body.sub_fragments[1].body /= sink[k].body.sub_fragments[3].body

\* C10: a line stored in a pending page neither begins nor ends with a space.
C10_LinesTrimmed ==
    \A index \in DOMAIN page_state_ :
        \A k \in 1..Len(page_state_[index].lines) :
            LET line == page_state_[index].lines[k]
            IN  line /= <<>> => (line[1] /= 32 /\ line[Len(line)] /= 32)

\* The step of the data-unit loop that has read a display row (packet 1..25).
DisplayStep ==
    /\ pc = "loop"
    /\ nunits' = nunits + 1
    /\ Subtitling(unit')
    /\ PacketNr(unit') >= 1
    /\ PacketNr(unit') <= 25

\* Whether the bytes sub occur in line, side by side.
Contains(line, sub) ==
    \E k \in 1..(Len(line) - Len(sub) + 1) : SubSeq(line, k, k + Len(sub) - 1) = sub

\* C11: with charset code 5 in force, a row holding a byte that decodes to
\* 0x7B gets, on its line, the accented character the Portuguese/Spanish
\* variant has for table slot 0x5B (0x7B - 0x20).
C11_BraceIsAccented ==
    [][ (/\ DisplayStep
         /\ charset_code_ = CHARSET_PORTUGUESE_SPANISH
         /\ \E i \in 1..payload_len :
               BITREVERSE_8(unit'.data_block[i]) % 128 = 123) =>
          LET k == CHOOSE n \in 1..13 : NATIONAL_CHAR_INDEX_G0[n] = 123 - 32
          IN  Contains(Last(lines'), CString(PORTUGUESE_SPANISH[k])) ]_vars

\* C12: a Flush that comes right after a Flush hands nothing to the sink and
\* leaves the pending pages, the current magazine and page, the charset and
\* the announcement flag as they were.
C12_FlushTwiceChangesNothing ==
    [][ (pc = "idle" /\ flushes >= 1 /\ flushes' = 2) =>
          /\ sink' = sink
          /\ page_state_' = page_state_
          /\ magazine_' = magazine_
          /\ page_number_' = page_number_
          /\ charset_code_' = charset_code_
          /\ current_charset_' = current_charset_
          /\ sent_info_' = sent_info_
          /\ languages_' = languages_ ]_vars

C12_Witness ==
    /\ flushes = 2
    /\ last_call = [op |-> "Flush", result |-> "true"]
    /\ page_state_ /= <<>>
    /\ Len(sink) >= 2

\* The step on which a Parse call returns true with lines to store.
StoreStep ==
    /\ pc = "loop"
    /\ pc' = "idle"
    /\ last_call'.result = "true"
    /\ lines /= <<>>

\* What a StoreStep does when it binds the lines of the call to one index:
\* the lines go, in order, after those the page of that index holds already,
\* and no other page changes.
StoredUnder(index) ==
    LET old == IF index \in DOMAIN page_state_
               THEN page_state_[index].lines ELSE <<>>
    IN  /\ index \in DOMAIN page_state_'
        /\ page_state_'[index].lines = old \o lines
        /\ \A i \in DOMAIN page_state_' \ {index} :
              i \in DOMAIN page_state_ /\ page_state_'[i] = page_state_[i]

\* C13: once a header has been processed, all the lines decoded in one Parse
\* call are stored under one index, that of the latest header processed up to
\* the end of the call, whatever magazine the rows' own addresses carry and
\* whether the header came before or after the rows.
C13_LinesUnderLatestHeader ==
    [][ (StoreStep /\ last_header /= -1) => StoredUnder(last_header) ]_vars

C13_Witness ==
    /\ pc = "idle"
    /\ last_call = [op |-> "Parse", result |-> "true"]
    /\ nunits = 2
    /\ headers_seen = {112}
    /\ 112 \in DOMAIN page_state_
    /\ \E u \in DisplayUnits :
          /\ Magazine(u) /= 1
          /\ page_state_[112].lines = <<DisplayText(u.data_block, CHARSET_G0_LATIN)>>

\* C14 as stated: when the buffer of a Parse call carries the headers of
\* several pages, the lines of the call are stored under the index that was
\* current when the call was entered.
C14_LinesUnderEntryIndex ==
    [][ (StoreStep /\ Cardinality(call_headers) >= 2) =>
          StoredUnder(entry_index) ]_vars

\* C14, amended: when the buffer of a Parse call carries the headers of
\* several pages, the lines of the call are stored under the index current
\* when the call returns, that of the last header of the buffer; the page of
\* the index the call was entered with gets none of them unless it is the same.
C14_LinesUnderIndexAtReturn ==
    [][ (StoreStep /\ Cardinality(call_headers) >= 2) =>
          /\ last_header \in call_headers
          /\ StoredUnder(last_header)
          /\ (entry_index /= last_header /\ entry_index \in DOMAIN page_state_) =>
                page_state_'[entry_index] = page_state_[entry_index] ]_vars

\* Header 112, a row, header 800: the row is pending under 800.
C14_Witness ==
    /\ pc = "idle"
    /\ last_call = [op |-> "Parse", result |-> "true"]
    /\ nunits = 3
    /\ headers_seen = {112, 800}
    /\ Len(sink) = 1
    /\ DOMAIN page_state_ = {800}
    /\ Len(page_state_[800].lines) = 1
    /\ \E u \in DisplayUnits :
          /\ Magazine(u) = 1
          /\ page_state_[800].lines[1] = DisplayText(u.data_block, CHARSET_G0_LATIN)

\* C15: a page that becomes pending holds the lines of the Parse call that
\* creates it and that call's PTS; while it stays pending its start PTS never
\* changes, and a later call only adds its own lines after the ones held.
C15_StartPtsFixed ==
    [][ \A i \in DOMAIN page_state_' :
          IF i \in DOMAIN page_state_
          THEN /\ page_state_'[i].pts = page_state_[i].pts
               /\ \/ page_state_'[i].lines = page_state_[i].lines
                  \/ StoreStep /\ page_state_'[i].lines = page_state_[i].lines \o lines
          ELSE StoreStep /\ page_state_'[i] = [lines |-> lines, pts |-> pts] ]_vars

\* A page created by a call with PTS 1 and extended by a call with PTS 2.
C15_Witness ==
    /\ pc = "idle"
    /\ last_call = [op |-> "Parse", result |-> "true"]
    /\ pts = 2
    /\ nunits = 3
    /\ 112 \in DOMAIN page_state_
    /\ page_state_[112].pts = 1
    /\ Len(page_state_[112].lines) = 2
    /\ page_state_[112].lines[1] /= page_state_[112].lines[2]

\* C16: every pending page holds at least one line; a sample is made from a
\* pending page and so carries at least one line; a header for an index that
\* has no pending page hands nothing to the sink.
C16_NoEmptyPage ==
    [][ /\ \A i \in DOMAIN page_state_' : Len(page_state_'[i].lines) >= 1
        /\ (HeaderStep /\ HeaderIndex(unit') \notin DOMAIN page_state_) =>
              sink' = sink
        /\ (Len(sink') > Len(sink) /\ IsSample(Last(sink'))) =>
              /\ Last(sink').sub_stream_index \in DOMAIN page_state_
              /\ Len(page_state_[Last(sink').sub_stream_index].lines) >= 1
              /\ LinesOf(Last(sink').body)
                    = page_state_[Last(sink').sub_stream_index].lines ]_vars

\* A header for index 800 read while only page 112 is pending: no sample.
C16_Witness ==
    /\ pc = "loop"
    /\ Subtitling(unit)
    /\ PacketNr(unit) = 0
    /\ HeaderIndex(unit) = 800
    /\ DOMAIN page_state_ = {112}
    /\ Len(sink) = 1
    /\ IsInfo(sink[1])

\* C17: a Parse call starts with no line; a unit that is not a display row
\* (a header, a packet above 25, a unit of another kind) adds no line and
\* creates or extends no page; a call that ends with no line leaves the
\* pending pages as they are.  So a call whose subtitling units are all
\* headers or packets above 25 stores no line and creates no page.
C17_OnlyRowsMakeLines ==
    [][ /\ (pc = "idle" /\ pc' = "loop") => lines' = <<>>
        /\ (pc = "loop" /\ pc' = "loop" /\ ~DisplayStep) =>
              /\ lines' = lines
              /\ \A i \in DOMAIN page_state_' :
                    i \in DOMAIN page_state_ /\ page_state_'[i] = page_state_[i]
        /\ (pc = "loop" /\ pc' = "idle" /\ lines = <<>>) =>
              page_state_' = page_state_ ]_vars

\* A header and then a packet above 25 read in one call: still no line.
C17_Witness ==
    /\ pc = "loop"
    /\ Subtitling(unit)
    /\ PacketNr(unit) > 25
    /\ call_headers /= {}
    /\ nunits = 2
    /\ lines = <<>>
    /\ page_state_ = <<>>

\* C18: in every state the table in use is the one its charset code gives:
\* slot by slot the default Latin entry, except that with code 5 each of the
\* 13 national slots holds the Portuguese/Spanish entry of its rank.
C18_CharsetTableDerived ==
    \A i \in 0..95 :
        LET ranks == {k \in 1..13 : NATIONAL_CHAR_INDEX_G0[k] = i}
        IN  IF charset_code_ = CHARSET_PORTUGUESE_SPANISH /\ ranks /= {}
            THEN \A k \in ranks : current_charset_[i] = PORTUGUESE_SPANISH[k]
            ELSE current_charset_[i] = CHARSET_G0_LATIN[i]

\* The code has gone to 5: slot 0x5B holds the accented character, slot 0x21
\* the Latin letter.
C18_Witness ==
    /\ charset_code_ = CHARSET_PORTUGUESE_SPANISH
    /\ last_header = 800
    /\ current_charset_[91] = <<195, 188, 0>>
    /\ current_charset_[33] = <<65, 0, 0>>

\* C20: a header packet for page index X hands the sink no sample of another
\* index, makes no page pending, and leaves every pending page of another
\* index as it is, lines and start PTS.
C20_HeaderTouchesOnlyItsPage ==
    [][ HeaderStep =>
          LET X == HeaderIndex(unit')
          IN  /\ SubSeq(sink', 1, Len(sink)) = sink
              /\ \A k \in (Len(sink) + 1)..Len(sink') :
                    IsSample(sink'[k]) /\ sink'[k].sub_stream_index = X
              /\ DOMAIN page_state_' \subseteq DOMAIN page_state_
              /\ \A i \in DOMAIN page_state_ \ {X} :
                    i \in DOMAIN page_state_' /\ page_state_'[i] = page_state_[i] ]_vars

\* A header has sent the page of its index while another page stays pending.
C20_Witness ==
    /\ pc = "loop"
    /\ Subtitling(unit)
    /\ PacketNr(unit) = 0
    /\ Len(sink) = 2
    /\ IsSample(sink[2])
    /\ sink[2].sub_stream_index = HeaderIndex(unit)
    /\ call_headers = {HeaderIndex(unit)}
    /\ lines = <<>>
    /\ page_state_ /= <<>>
    /\ HeaderIndex(unit) \notin DOMAIN page_state_

\* C19: when the PTS values of the successive Parse calls do not decrease,
\* every sample starts no later than it ends, and a sample starts no earlier
\* than every earlier sample of the same index has ended.
C19_SamplesInTimeOrder ==
    /\ \A k \in 1..Len(sink) :
          IsSample(sink[k]) => sink[k].start_time <= sink[k].end_time
    /\ \A j, k \in 1..Len(sink) :
          (/\ j < k
           /\ IsSample(sink[j])
           /\ IsSample(sink[k])
           /\ sink[j].sub_stream_index = sink[k].sub_stream_index) =>
              sink[k].start_time >= sink[j].end_time

\* Two samples of one index, the first one spanning two calls.
C19_Witness ==
    \E j, k \in 1..Len(sink) :
        /\ j < k
        /\ IsSample(sink[j])
        /\ IsSample(sink[k])
        /\ sink[j].sub_stream_index = sink[k].sub_stream_index
        /\ sink[j].start_time < sink[j].end_time
        /\ sink[k].start_time = sink[j].end_time

====
